---- MODULE Spec2Model ----
(***************************************************************************)
(* A model of yapsap's inference core: Robinson unification                *)
(* (yapsap/unification.py), positive factoring (yapsap/factoring.py) and   *)
(* binary paramodulation (yapsap/paramodulation.py).                       *)
(*                                                                         *)
(* Propositions are finite trees.  A node is a record                      *)
(*   [kind, index, arguments]                                              *)
(* with kind "Variable", "Function" or "Predicate"; a Variable has no      *)
(* arguments.  Python tuples are sequences, Python exceptions are outcome  *)
(* records [kind |-> <exception name>, value |-> <<>>].                    *)
(***************************************************************************)
EXTENDS Integers, Sequences, FiniteSets, TLC

VARIABLES
    pc,                 \* where the running call is
    inputs,             \* the arguments of the outermost call
    propositions,       \* most_general_unifier: the current propositions
    substitutions,      \* most_general_unifier: the accumulated bindings
    given_clause,       \* all_possible_factors / all_paramodulants_from_list
    clauses,            \* all_paramodulants_from_list: the processed clauses
    ci,                 \* index of other_clause in clauses
    i,                  \* index of literal_one
    j,                  \* index of literal_two
    phase,              \* _get_new_paramodulants: which of its two ifs is next
    factors,            \* all_possible_factors: the factors collected so far
    new_paramodulants,  \* _get_new_paramodulants: its accumulator
    paramodulants,      \* all_paramodulants_from_list: its accumulator
    result              \* what the outermost call returned or raised

vars == <<pc, inputs, propositions, substitutions, given_clause, clauses, ci,
          i, j, phase, factors, new_paramodulants, paramodulants, result>>

-----------------------------------------------------------------------------
(* The term model (tptp_lark_parser.grammar, as the sources use it).       *)

Variable(index) == [kind |-> "Variable", index |-> index, arguments |-> <<>>]

Function(index, arguments) ==
    [kind |-> "Function", index |-> index, arguments |-> arguments]

Predicate(index, arguments) ==
    [kind |-> "Predicate", index |-> index, arguments |-> arguments]

Literal(negated, atom) == [negated |-> negated, atom |-> atom]

\* Optional fields: None is "None" for the rule and <<>> for the parents
\* (the code never builds an empty tuple of parents).
NoRule == "None"
NoParents == <<>>

\* A label the caller did not give is a fresh one ("x" + uuid1).
FreshLabel == "x_fresh"

\* Clause(literals, label, inference_parents, inference_rule): a frozen
\* dataclass; the tuple of literals is stored as given.
Clause(literals, label, inference_parents, inference_rule) ==
    [literals |-> literals, label |-> label,
     inference_parents |-> inference_parents,
     inference_rule |-> inference_rule]

\* Clause(literals): the other fields take their defaults.
PlainClause(literals) == Clause(literals, FreshLabel, NoParents, NoRule)

EQUALITY_SYMBOL_ID == 0

IsVariable(p) == p.kind = "Variable"
IsFunction(p) == p.kind = "Function"
IsPredicate(p) == p.kind = "Predicate"

\* Outcomes of a call.
Return(value) == [kind |-> "return", value |-> value]
Raise(exception) == [kind |-> exception, value |-> <<>>]
NoResult == [kind |-> "none", value |-> <<>>]

\* The outermost call: the function's name and its arguments.
Call(function, args) == [call |-> function, args |-> args]

\* tuple(a_set): the elements in an order the set's hashing decides.
TupleOfSet(S) ==
    {t \in [1..Cardinality(S) -> S] :
        \A m, n \in 1..Cardinality(S) : m # n => t[m] # t[n]}

\* The elements of a tuple.
Range(t) == {t[n] : n \in DOMAIN t}

\* t[:n-1] + t[n+1:] (n counts from 1).
RemoveAt(t, n) == [m \in 1..(Len(t) - 1) |-> IF m < n THEN t[m] ELSE t[m + 1]]

-----------------------------------------------------------------------------
(* yapsap.utils and yapsap.substitution                                    *)

RECURSIVE is_subproposition(_, _)
\* one occurs in two (the occurs-check).
is_subproposition(one, two) ==
    \/ one = two
    \/ /\ ~IsVariable(two)
       /\ \E n \in DOMAIN two.arguments :
            is_subproposition(one, two.arguments[n])

RECURSIVE proposition_length(_)
\* The number of nodes of the tree.
proposition_length(p) ==
    IF IsVariable(p) THEN 1
    ELSE LET RECURSIVE Sum(_)
             Sum(n) == IF n = 0 THEN 0
                       ELSE Sum(n - 1) + proposition_length(p.arguments[n])
         IN 1 + Sum(Len(p.arguments))

\* The pre-order position at which argument n of p starts.
ArgumentStart(p, n) ==
    LET RECURSIVE Before(_)
        Before(m) == IF m = 0 THEN 0
                     ELSE Before(m - 1) + proposition_length(p.arguments[m])
    IN 1 + Before(n - 1)

\* The argument of p whose sub-tree holds pre-order position index (>= 1).
ArgumentHolding(p, index) ==
    CHOOSE n \in DOMAIN p.arguments :
        /\ ArgumentStart(p, n) <= index
        /\ index < ArgumentStart(p, n) + proposition_length(p.arguments[n])

RECURSIVE subterm_by_index(_, _)
\* The sub-term at a pre-order position; 0 is the whole proposition.
subterm_by_index(p, index) ==
    IF index = 0 THEN p
    ELSE LET n == ArgumentHolding(p, index)
         IN subterm_by_index(p.arguments[n], index - ArgumentStart(p, n))

RECURSIVE ReplaceAt(_, _, _)
\* p with the sub-term at a pre-order position replaced by term.
ReplaceAt(p, index, term) ==
    IF index = 0 THEN term
    ELSE LET n == ArgumentHolding(p, index)
         IN [p EXCEPT !.arguments[n] =
                ReplaceAt(p.arguments[n], index - ArgumentStart(p, n), term)]

\* replace_subterm_by_index: raises TermSelfReplace when the replacement is
\* the sub-term it replaces.
replace_subterm_by_index(atom, index, term) ==
    IF subterm_by_index(atom, index) = term THEN Raise("TermSelfReplace")
    ELSE Return(ReplaceAt(atom, index, term))

Substitution(variable, term) == [variable |-> variable, term |-> term]

RECURSIVE substitute(_, _)
\* Substitution.__call__: every occurrence of the variable becomes the term.
substitute(substitution, target) ==
    IF IsVariable(target)
    THEN IF target = substitution.variable THEN substitution.term ELSE target
    ELSE [target EXCEPT !.arguments =
            [n \in DOMAIN target.arguments |->
                substitute(substitution, target.arguments[n])]]

\* Substitution.substitute_in_clause: the substitution in every literal's
\* atom; the clause's other fields are kept.
substitute_in_clause(substitution, clause) ==
    [clause EXCEPT !.literals =
        [n \in DOMAIN clause.literals |->
            Literal(clause.literals[n].negated,
                    substitute(substitution, clause.literals[n].atom))]]

RECURSIVE ApplyAll(_, _)
\* The bindings of a unifier applied to a proposition one after another.
ApplyAll(unifier, p) ==
    IF unifier = <<>> THEN p
    ELSE ApplyAll(Tail(unifier), substitute(Head(unifier), p))

RECURSIVE ApplyAllToClause(_, _)
\* for substitution in substitutions: result = substitution.substitute_in_clause(result)
ApplyAllToClause(unifier, clause) ==
    IF unifier = <<>> THEN clause
    ELSE ApplyAllToClause(Tail(unifier),
                          substitute_in_clause(Head(unifier), clause))

RECURSIVE VariablesOf(_)
\* The indices of the variables occurring in a proposition.
VariablesOf(p) ==
    IF IsVariable(p) THEN {p.index}
    ELSE UNION {VariablesOf(p.arguments[n]) : n \in DOMAIN p.arguments}

VariablesOfAll(ps) == UNION {VariablesOf(ps[n]) : n \in DOMAIN ps}

-----------------------------------------------------------------------------
(* yapsap.unification                                                      *)

RECURSIVE _get_disagreement_first_argument(_, _)
\* A disagreement search that returns from inside its loop over the
\* arguments: only the first pair of arguments is compared.
_get_disagreement_first_argument(one, two) ==
    IF IsVariable(one) /\ IsVariable(two)
    THEN IF one.index # two.index THEN <<one, two>> ELSE <<>>
    ELSE IF \/ IsPredicate(one) /\ IsPredicate(two)
            \/ IsFunction(one) /\ IsFunction(two)
    THEN IF \/ one.index # two.index
            \/ Len(one.arguments) # Len(two.arguments)
         THEN <<one, two>>
         ELSE IF one.arguments = <<>> THEN <<>>
              ELSE _get_disagreement_first_argument(one.arguments[1],
                                                    two.arguments[1])
    ELSE <<one, two>>

RECURSIVE _get_disagreement(_, _)
_get_disagreement(one, two) ==
    IF IsVariable(one) /\ IsVariable(two)
    THEN IF one.index # two.index THEN <<one, two>> ELSE <<>>
    ELSE IF \/ IsPredicate(one) /\ IsPredicate(two)
            \/ IsFunction(one) /\ IsFunction(two)
    THEN IF \/ one.index # two.index
            \/ Len(one.arguments) # Len(two.arguments)
         THEN <<one, two>>
         ELSE LET differing == {n \in DOMAIN one.arguments :
                    _get_disagreement(one.arguments[n], two.arguments[n])
                        # <<>>}
              IN IF differing = {} THEN <<>>
                 ELSE LET first == CHOOSE n \in differing :
                                       \A m \in differing : n <= m
                      IN _get_disagreement(one.arguments[first],
                                           two.arguments[first])
    ELSE <<one, two>>

\* The binding _propose_substitution builds before its occurs-check, or <<>>
\* for its None.
ProposedBinding(disagreement) ==
    IF /\ IsVariable(disagreement[1])
       /\ (IsVariable(disagreement[2]) \/ IsFunction(disagreement[2]))
    THEN <<Substitution(disagreement[1], disagreement[2])>>
    ELSE IF /\ IsVariable(disagreement[2])
            /\ (IsVariable(disagreement[1]) \/ IsFunction(disagreement[1]))
    THEN <<Substitution(disagreement[2], disagreement[1])>>
    ELSE <<>>

\* A proposal without the occurs-check.
_propose_substitution_unchecked(disagreement, props) ==
    LET proposed == ProposedBinding(disagreement)
    IN IF proposed = <<>> THEN Raise("NonUnifiableError")
       ELSE Return(proposed[1])

_propose_substitution(disagreement, props) ==
    LET proposed == ProposedBinding(disagreement)
    IN IF \/ proposed = <<>>
          \/ is_subproposition(proposed[1].variable, proposed[1].term)
       THEN Raise("NonUnifiableError")
       ELSE Return(proposed[1])

\* An activation that applies its binding to the first proposition only.
most_general_unifier_body_rewrite_first(props, substs) ==
    IF Len(props) = 1 THEN {Return(substs)}
    ELSE LET disagreement == _get_disagreement(props[1], props[2])
         IN IF disagreement = <<>> THEN {Return(<<>>)}
            ELSE LET proposal == _propose_substitution(disagreement, props)
                 IN IF proposal.kind # "return" THEN {proposal}
                    ELSE {[kind |-> "recurse",
                           value |-> [propositions |-> rewritten,
                                      substitutions |->
                                          Append(substs, proposal.value)]] :
                            rewritten \in TupleOfSet(
                                {substitute(proposal.value, props[1])}
                                    \cup {props[n] : n \in DOMAIN props \ {1}})}

\* One activation of most_general_unifier: what it returns or raises, or
\* the arguments of its recursive call ("recurse"; one per order in which
\* the set of rewritten propositions may be enumerated).
most_general_unifier_body(props, substs) ==
    IF Len(props) = 1 THEN {Return(substs)}
    ELSE LET disagreement == _get_disagreement(props[1], props[2])
         IN IF disagreement = <<>> THEN {Return(<<>>)}
            ELSE LET proposal == _propose_substitution(disagreement, props)
                 IN IF proposal.kind # "return" THEN {proposal}
                    ELSE {[kind |-> "recurse",
                           value |-> [propositions |-> rewritten,
                                      substitutions |->
                                          Append(substs, proposal.value)]] :
                            rewritten \in TupleOfSet(
                                {substitute(proposal.value, props[n]) :
                                    n \in DOMAIN props})}

RECURSIVE most_general_unifier_from(_, _)
\* Every outcome of most_general_unifier(props, substs).
most_general_unifier_from(props, substs) ==
    UNION {IF step.kind = "recurse"
           THEN most_general_unifier_from(step.value.propositions,
                                          step.value.substitutions)
           ELSE {step} :
           step \in most_general_unifier_body(props, substs)}

\* Every outcome of most_general_unifier(props).
most_general_unifier(props) == most_general_unifier_from(props, <<>>)

-----------------------------------------------------------------------------
(* The inputs of the unification runs.                                     *)

MaxLen == 3

X0 == Variable(0)
X1 == Variable(1)
X2 == Variable(2)
ConstA == Function(0, <<>>)

Atomic == {X0, X1, X2, ConstA}

\* Variables, a constant, and symbol 7 used with one and with two arguments.
Terms == Atomic \cup {Function(7, <<s>>) : s \in Atomic}
                \cup {Function(7, <<s, t>>) : s, t \in Atomic}

\* The pair of the most_general_unifier doctest, with its variables renamed.
DocOne == Predicate(8, <<X0, X1, Function(0, <<X2>>)>>)
DocTwo == Predicate(8, <<Variable(4), Function(7, <<Variable(5), Variable(5)>>),
                         Variable(5)>>)

PairPropositions ==
    Terms \cup {DocOne, DocTwo}
          \cup {Predicate(8, <<s, Function(7, <<t>>)>>) :
                    s \in {X0, ConstA}, t \in {X0, X1}}
          \cup {Predicate(9, <<X0>>), Function(1, <<X0>>)}

\* Longer inputs are drawn from fewer propositions.
FewPropositions ==
    {X0, X1, ConstA, Function(1, <<>>), Function(7, <<X0>>),
     Function(7, <<X1>>), Function(7, <<ConstA>>)}

UnificationInputs ==
    [1..2 -> PairPropositions]
        \cup UNION {[1..n -> FewPropositions] : n \in (1..MaxLen) \ {2}}

\* Nothing has been called yet.
Init ==
    /\ pc = "idle"
    /\ inputs = Call("none", <<>>)
    /\ propositions = <<>>
    /\ substitutions = <<>>
    /\ result = NoResult
    /\ given_clause = PlainClause(<<>>)
    /\ clauses = <<>>
    /\ ci = 0 /\ i = 0 /\ j = 0 /\ phase = "none"
    /\ factors = <<>>
    /\ new_paramodulants = <<>>
    /\ paramodulants = <<>>

OtherThanUnification ==
    <<given_clause, clauses, ci, i, j, phase, factors,
      new_paramodulants, paramodulants>>

\* most_general_unifier(props) is called.
CallMostGeneralUnifier ==
    /\ pc = "idle"
    /\ \E props \in UnificationInputs :
        /\ inputs' = Call("most_general_unifier", <<props>>)
        /\ propositions' = props
    /\ substitutions' = <<>>
    /\ pc' = "most_general_unifier"
    /\ UNCHANGED result
    /\ UNCHANGED OtherThanUnification

\* most_general_unifier calls itself on the rewritten propositions.
MguRecurse ==
    /\ pc = "most_general_unifier"
    /\ \E step \in most_general_unifier_body(propositions, substitutions) :
        /\ step.kind = "recurse"
        /\ propositions' = step.value.propositions
        /\ substitutions' = step.value.substitutions
    /\ UNCHANGED <<pc, result, inputs>>
    /\ UNCHANGED OtherThanUnification

\* most_general_unifier returns (and every activation below returns the same).
MguReturn ==
    /\ pc = "most_general_unifier"
    /\ \E step \in most_general_unifier_body(propositions, substitutions) :
        /\ step.kind = "return"
        /\ result' = step
    /\ pc' = "done"
    /\ UNCHANGED <<propositions, substitutions, inputs>>
    /\ UNCHANGED OtherThanUnification

\* _propose_substitution raises NonUnifiableError.
MguRaise ==
    /\ pc = "most_general_unifier"
    /\ \E step \in most_general_unifier_body(propositions, substitutions) :
        /\ step.kind = "NonUnifiableError"
        /\ result' = step
    /\ pc' = "done"
    /\ UNCHANGED <<propositions, substitutions, inputs>>
    /\ UNCHANGED OtherThanUnification

NextUnification ==
    CallMostGeneralUnifier \/ MguRecurse \/ MguReturn \/ MguRaise

Spec == Init /\ [][NextUnification]_vars

-----------------------------------------------------------------------------
(* Properties of most_general_unifier.                                     *)

Returned == pc = "done" /\ result.kind = "return"

\* The propositions most_general_unifier was called with.
Given == inputs.args[1]

\* C1: when most_general_unifier returns for a pair (p, q), its bindings
\* applied in order to p and to q give structurally equal propositions,
\* whatever order the rewritten set was enumerated in at each step.
C1_UnifierSoundForPairs ==
    (Returned /\ Len(Given) = 2) =>
        ApplyAll(result.value, Given[1]) = ApplyAll(result.value, Given[2])

\* A pair has been unified in at least two steps and with more than one
\* possible answer (the enumeration order of the set decided which).
C1_Witness ==
    /\ Returned /\ Len(Given) = 2
    /\ Len(result.value) >= 2
    /\ Cardinality(most_general_unifier(Given)) >= 2

\* C2: when most_general_unifier returns for a sequence of two or more
\* propositions, its bindings applied in order to every input give one and
\* the same proposition, also when the first two inputs are equal.
C2_UnifiesEverySequence ==
    (Returned /\ Len(Given) >= 2) =>
        \A m, n \in DOMAIN Given :
            ApplyAll(result.value, Given[m]) = ApplyAll(result.value, Given[n])

\* C3: no binding most_general_unifier accumulates or returns binds a
\* variable to a term containing it; a disagreement whose proposed binding
\* would do so makes the call raise NonUnifiableError; and
\* most_general_unifier((Variable(0), Function(f, (Variable(0),)))) raises
\* for every function symbol f.
C3_OccursCheck ==
    /\ \A n \in DOMAIN substitutions :
        ~is_subproposition(substitutions[n].variable, substitutions[n].term)
    /\ Returned =>
        \A n \in DOMAIN result.value :
            ~is_subproposition(result.value[n].variable, result.value[n].term)
    /\ (pc = "done" /\ Len(propositions) >= 2
            /\ _get_disagreement(propositions[1], propositions[2]) # <<>>) =>
        LET proposed == ProposedBinding(
                _get_disagreement(propositions[1], propositions[2]))
        IN (/\ proposed # <<>>
            /\ is_subproposition(proposed[1].variable, proposed[1].term))
                => result.kind = "NonUnifiableError"
    /\ (/\ pc = "done" /\ Len(Given) = 2 /\ Given[1] = X0
        /\ IsFunction(Given[2]) /\ Given[2].arguments = <<X0>>)
            => result.kind = "NonUnifiableError"

\* The doctest's call has raised because of the occurs-check, and so has a
\* call in which the occurs-check failed only after a first binding.
C3_Witness ==
    /\ pc = "done" /\ result.kind = "NonUnifiableError"
    /\ substitutions # <<>>
    /\ LET proposed == ProposedBinding(
               _get_disagreement(propositions[1], propositions[2]))
       IN /\ proposed # <<>>
          /\ is_subproposition(proposed[1].variable, proposed[1].term)

\* C10: every recursive step of most_general_unifier strictly reduces the
\* number of distinct variables of the current propositions (the bound
\* variable is gone from them), so the recursion is never deeper than the
\* number of distinct variables of the input and the call ends.
C10_Terminates ==
    [][/\ substitutions' # substitutions =>
            /\ Cardinality(VariablesOfAll(propositions'))
                 < Cardinality(VariablesOfAll(propositions))
            /\ substitutions'[Len(substitutions')].variable.index
                 \notin VariablesOfAll(propositions')
       /\ pc' # "idle" =>
            Len(substitutions') <= Cardinality(VariablesOfAll(inputs'.args[1]))]_vars

\* A call that recursed three times has ended.
C10_Witness == pc = "done" /\ Len(substitutions) >= 3

-----------------------------------------------------------------------------
(* yapsap.factoring                                                        *)

\* factoring that unifies before it looks at the signs.
factoring_unifies_first(clause, literal_one, literal_two) ==
    {IF unifier.kind # "return" THEN unifier
     ELSE IF literal_one.negated \/ literal_two.negated
     THEN Raise("ValueError")
     ELSE Return(ApplyAllToClause(
             unifier.value,
             PlainClause(Append(clause.literals, literal_one)))) :
     unifier \in most_general_unifier(<<literal_one.atom, literal_two.atom>>)}

\* Every outcome of factoring(clause, literal_one, literal_two).
factoring(clause, literal_one, literal_two) ==
    IF literal_one.negated \/ literal_two.negated
    THEN {Raise("ValueError")}
    ELSE {IF unifier.kind # "return" THEN unifier
          ELSE Return(ApplyAllToClause(
                  unifier.value,
                  PlainClause(Append(clause.literals, literal_one)))) :
          unifier \in most_general_unifier(
              <<literal_one.atom, literal_two.atom>>)}

\* A residual clause that drops literal m only.
WithoutFirstOfPair(literals, m, n) == RemoveAt(literals, m)

\* given_clause.literals[:i] + given_clause.literals[i + 1 : j]
\*     + given_clause.literals[j + 1 :]   (m < n, both counted from 1)
WithoutPair(literals, m, n) == RemoveAt(RemoveAt(literals, n), m)

\* The pair of positions the two loops of all_possible_factors visit after
\* (m, n) in a tuple of the given length; n is past the length when the
\* loops are over.
NextPair(m, n, length) ==
    IF n < length THEN <<m, n + 1>> ELSE <<m + 1, m + 2>>

\* The clause all_possible_factors returns for a factor.
TagFactor(factor, given) ==
    Clause(factor.literals, FreshLabel, <<given.label>>, "factoring")

-----------------------------------------------------------------------------
(* The inputs of the factoring runs.                                       *)

MaxLiterals == 3

\* q, p(.) and r(., .)
AtomQ == Predicate(10, <<>>)
AtomP(s) == Predicate(8, <<s>>)
AtomR(s, t) == Predicate(9, <<s, t>>)

FactoringAtoms ==
    {AtomQ} \cup {AtomP(s) : s \in {X0, ConstA}}
            \cup {AtomR(s, t) : s, t \in {X0, X1, ConstA}}

FactoringLiterals ==
    {Literal(FALSE, a) : a \in FactoringAtoms}
        \cup {Literal(TRUE, a) : a \in {AtomP(X0), AtomR(ConstA, X1)}}

FactoringClauses ==
    {Clause(ls, "given", NoParents, NoRule) :
        ls \in UNION {[1..n -> FactoringLiterals] : n \in 0..MaxLiterals}}

OtherThanFactoring ==
    <<propositions, substitutions, clauses, ci, phase, new_paramodulants,
      paramodulants>>

\* factoring(clause, literal_one, literal_two) is called, and returns or
\* raises.
CallFactoring ==
    /\ pc = "idle"
    /\ \E clause \in FactoringClauses, one, two \in FactoringLiterals :
        /\ Len(clause.literals) <= 1
        /\ inputs' = Call("factoring", <<clause, one, two>>)
        /\ result' \in factoring(clause, one, two)
    /\ pc' = "done"
    /\ UNCHANGED <<given_clause, i, j, factors>>
    /\ UNCHANGED OtherThanFactoring

\* all_possible_factors(given_clause) is called.
CallAllPossibleFactors ==
    /\ pc = "idle"
    /\ \E clause \in FactoringClauses :
        /\ inputs' = Call("all_possible_factors", <<clause>>)
        /\ given_clause' = clause
    /\ factors' = <<>>
    /\ i' = 1 /\ j' = 2
    /\ pc' = "all_possible_factors"
    /\ UNCHANGED result
    /\ UNCHANGED OtherThanFactoring

\* One pass of the inner loop of all_possible_factors.
FactorPair ==
    /\ pc = "all_possible_factors"
    /\ j <= Len(given_clause.literals)
    /\ LET literal_one == given_clause.literals[i]
           literal_two == given_clause.literals[j]
           a_clause == PlainClause(WithoutPair(given_clause.literals, i, j))
           next == NextPair(i, j, Len(given_clause.literals))
       IN IF ~literal_one.negated /\ ~literal_two.negated
          THEN \E outcome \in factoring(a_clause, literal_one, literal_two) :
                \/ /\ outcome.kind = "return"
                   /\ factors' = Append(factors, outcome.value)
                   /\ i' = next[1] /\ j' = next[2]
                   /\ UNCHANGED <<pc, result>>
                \/ /\ outcome.kind = "NonUnifiableError"
                   /\ i' = next[1] /\ j' = next[2]
                   /\ UNCHANGED <<pc, result, factors>>
                \/ /\ outcome.kind \notin {"return", "NonUnifiableError"}
                   /\ result' = outcome
                   /\ pc' = "done"
                   /\ UNCHANGED <<i, j, factors>>
          ELSE /\ i' = next[1] /\ j' = next[2]
               /\ UNCHANGED <<pc, result, factors>>
    /\ UNCHANGED <<inputs, given_clause>>
    /\ UNCHANGED OtherThanFactoring

\* The loops are over: all_possible_factors returns the tagged factors.
ReturnFactors ==
    /\ pc = "all_possible_factors"
    /\ j > Len(given_clause.literals)
    /\ result' = Return([n \in DOMAIN factors |->
                            TagFactor(factors[n], given_clause)])
    /\ pc' = "done"
    /\ UNCHANGED <<inputs, given_clause, i, j, factors>>
    /\ UNCHANGED OtherThanFactoring

NextFactoring ==
    CallFactoring \/ CallAllPossibleFactors \/ FactorPair \/ ReturnFactors

SpecFactoring == Init /\ [][NextFactoring]_vars

-----------------------------------------------------------------------------
(* Unifiability, stated without the algorithm: two propositions are        *)
(* unifiable when one assignment of ground terms to their variables makes  *)
(* them equal.  The ground terms below are enough for the propositions of  *)
(* the factoring and paramodulation runs, whose variables can only be      *)
(* bound to variables and constants.                                       *)

ConstB == Function(1, <<>>)
ConstC == Function(2, <<>>)

GroundTerms == {ConstA, ConstB, ConstC}

RECURSIVE Instantiate(_, _)
Instantiate(assignment, p) ==
    IF IsVariable(p) THEN assignment[p.index]
    ELSE [p EXCEPT !.arguments =
            [n \in DOMAIN p.arguments |->
                Instantiate(assignment, p.arguments[n])]]

Unifiable(s, t) ==
    \E assignment \in [VariablesOf(s) \cup VariablesOf(t) -> GroundTerms] :
        Instantiate(assignment, s) = Instantiate(assignment, t)

-----------------------------------------------------------------------------
(* Properties of factoring and all_possible_factors.                       *)

\* The pairs of positions of a clause that factoring applies to.
FactorablePairs(literals) ==
    {pair \in (DOMAIN literals) \X (DOMAIN literals) :
        /\ pair[1] < pair[2]
        /\ ~literals[pair[1]].negated
        /\ ~literals[pair[2]].negated
        /\ Unifiable(literals[pair[1]].atom, literals[pair[2]].atom)}

\* pair comes before other, or is it, in the order of the two loops.
NotAfter(pair, other) ==
    pair[1] < other[1] \/ (pair[1] = other[1] /\ pair[2] <= other[2])

\* The clause of the all_possible_factors doctest: p(c) | p(X) | q.
DocFactorClause ==
    Clause(<<Literal(FALSE, AtomP(ConstA)), Literal(FALSE, AtomP(X0)),
             Literal(FALSE, AtomQ)>>, "given", NoParents, NoRule)

AllPossibleFactorsDone ==
    pc = "done" /\ inputs.call = "all_possible_factors"

\* C5: all_possible_factors never raises; it returns one clause for each
\* pair of positions i < j whose literals are both positive and have
\* unifiable atoms, in the order of the pairs, and nothing for any other
\* pair.  The clause for (i, j) is a most general unifier of the two atoms
\* applied, binding by binding, to the literals without positions i and j
\* followed by literal i.  For p(c) | p(X) | q there is one factor, with
\* the literals q and p(c).
C5_AllPossibleFactors ==
    AllPossibleFactorsDone =>
        LET literals == given_clause.literals
            pairs == FactorablePairs(literals)
        IN /\ result.kind = "return"
           /\ Len(result.value) = Cardinality(pairs)
           /\ \A pair \in pairs :
                LET k == Cardinality({q \in pairs : NotAfter(q, pair)})
                    one == literals[pair[1]]
                    two == literals[pair[2]]
                    rest == WithoutPair(literals, pair[1], pair[2])
                IN \E unifier \in most_general_unifier(<<one.atom, two.atom>>) :
                    /\ unifier.kind = "return"
                    /\ ApplyAll(unifier.value, one.atom)
                         = ApplyAll(unifier.value, two.atom)
                    /\ result.value[k].literals =
                         [n \in 1..(Len(rest) + 1) |->
                            IF n <= Len(rest)
                            THEN Literal(rest[n].negated,
                                         ApplyAll(unifier.value, rest[n].atom))
                            ELSE Literal(FALSE,
                                         ApplyAll(unifier.value, one.atom))]
           /\ given_clause = DocFactorClause =>
                /\ Len(result.value) = 1
                /\ result.value[1].literals =
                     <<Literal(FALSE, AtomQ), Literal(FALSE, AtomP(ConstA))>>

\* all_possible_factors has returned for a clause of three positive
\* literals of which one pair was skipped as not unifiable and another
\* gave a factor.
C5_Witness ==
    /\ AllPossibleFactorsDone
    /\ Len(given_clause.literals) = 3
    /\ \A n \in 1..3 : ~given_clause.literals[n].negated
    /\ ~Unifiable(given_clause.literals[1].atom, given_clause.literals[2].atom)
    /\ Unifiable(given_clause.literals[2].atom, given_clause.literals[3].atom)
    /\ Len(result.value) >= 1

FactoringDone == pc = "done" /\ inputs.call = "factoring"

\* C7: factoring raises ValueError whenever one of its two literals is
\* negated, whether or not their atoms are unifiable: it then neither
\* raises NonUnifiableError nor returns a clause.
C7_FactoringNeedsPositiveLiterals ==
    (FactoringDone /\ (inputs.args[2].negated \/ inputs.args[3].negated))
        => result.kind = "ValueError"

\* factoring has raised ValueError for a negated literal whose atom does
\* not unify with the other literal's.
C7_Witness ==
    /\ FactoringDone
    /\ inputs.args[2].negated /\ ~inputs.args[3].negated
    /\ ~Unifiable(inputs.args[2].atom, inputs.args[3].atom)
    /\ result.kind = "ValueError"

-----------------------------------------------------------------------------
(* yapsap.paramodulation                                                   *)

\* Every outcome of paramodulation(clause_one, literal_one, clause_two,
\* literal_two, r_position); literal_one is the pair <<s, t>>.
paramodulation(clause_one, literal_one, clause_two, literal_two, r_position) ==
    UNION {
        IF unifier.kind # "return" THEN {unifier}
        ELSE LET new_atom == replace_subterm_by_index(
                     literal_two.atom, r_position, literal_one[2])
             IN IF new_atom.kind # "return" THEN {new_atom}
                ELSE {Return(ApplyAllToClause(unifier.value,
                                              PlainClause(new_literals))) :
                        new_literals \in TupleOfSet(
                            {Literal(literal_two.negated, new_atom.value)}
                                \cup Range(clause_one.literals)
                                \cup Range(clause_two.literals))} :
        unifier \in most_general_unifier(
            <<literal_one[1],
              subterm_by_index(literal_two.atom, r_position)>>)}

\* What one try/except of _equality_symmetry_paramodulation adds to its
\* tuple: the paramodulant, or nothing when NonUnifiableError or
\* TermSelfReplace was raised.
Attempt(outcomes) ==
    {IF outcome.kind = "return" THEN <<outcome.value>> ELSE <<>> :
        outcome \in outcomes}

\* An enumeration that tries one orientation of the equality only.
_equality_symmetry_paramodulation_one_way(clause_one, literal_one, clause_two, literal_two, k) ==
    Attempt(paramodulation(
        clause_one,
        <<literal_one.atom.arguments[1], literal_one.atom.arguments[2]>>,
        clause_two, literal_two, k))

\* Every tuple _equality_symmetry_paramodulation may return.
_equality_symmetry_paramodulation(clause_one, literal_one, clause_two, literal_two, k) ==
    LET left == literal_one.atom.arguments[1]
        right == literal_one.atom.arguments[2]
    IN {first \o second :
          first \in Attempt(paramodulation(
              clause_one, <<left, right>>, clause_two, literal_two, k)),
          second \in Attempt(paramodulation(
              clause_one, <<right, left>>, clause_two, literal_two, k))}

\* An equality test that does not look at the sign.
NotAnEqualityWhateverSign(literal_one) ==
    \/ literal_one.atom.index # EQUALITY_SYMBOL_ID
    \/ Len(literal_one.atom.arguments) # 2

\* The condition under which all_paramodulants_from_clause raises ValueError.
NotAnEquality(literal_one) ==
    \/ literal_one.atom.index # EQUALITY_SYMBOL_ID
    \/ literal_one.negated
    \/ Len(literal_one.atom.arguments) # 2

\* Every outcome of all_paramodulants_from_clause.
all_paramodulants_from_clause(clause_one, literal_one, clause_two, literal_two) ==
    IF NotAnEquality(literal_one) THEN {Raise("ValueError")}
    ELSE IF literal_one.atom.arguments[1] = literal_one.atom.arguments[2]
    THEN {Return(<<>>)}
    ELSE LET RECURSIVE UpTo(_)
             \* the tuples collected by the passes of the loop up to k
             UpTo(k) ==
                IF k = 0 THEN {<<>>}
                ELSE {before \o found :
                        before \in UpTo(k - 1),
                        found \in _equality_symmetry_paramodulation(
                            clause_one, literal_one, clause_two,
                            literal_two, k)}
         IN {Return(found) :
                found \in UpTo(proposition_length(literal_two.atom) - 1)}

\* The test of _get_new_paramodulants and its caller for a rewriting literal.
SelectedAsEquality(literal) ==
    ~literal.negated /\ literal.atom.index = EQUALITY_SYMBOL_ID

\* A tagging that names the given clause before the processed one.
TagParamodulantGivenFirst(paramodulant, other_clause, given) ==
    Clause(paramodulant.literals, FreshLabel,
           <<given.label, other_clause.label>>, "paramodulation")

\* The clause all_paramodulants_from_list returns for a paramodulant.
TagParamodulant(paramodulant, other_clause, given) ==
    Clause(paramodulant.literals, FreshLabel,
           <<other_clause.label, given.label>>, "paramodulation")

-----------------------------------------------------------------------------
(* The inputs of the paramodulation runs.                                  *)

Equality(s, t) == Predicate(EQUALITY_SYMBOL_ID, <<s, t>>)

\* a=b, X=X, b=c (the clauses of the all_paramodulants_from_list doctest),
\* X=b, the atom p(b), a negated equality, and the equality symbol
\* with one argument (the other doctest of all_paramodulants_from_list).
ParamodulationLiterals ==
    {Literal(FALSE, Equality(ConstA, ConstB)),
     Literal(FALSE, Equality(X0, X0)),
     Literal(FALSE, Equality(ConstB, ConstC)),
     Literal(FALSE, Equality(X0, ConstB)),
     Literal(FALSE, AtomP(ConstB)),
     Literal(TRUE, Equality(ConstA, ConstB)),
     Literal(FALSE, Predicate(EQUALITY_SYMBOL_ID, <<ConstB>>))}

LiteralTuples(lengths) ==
    UNION {[1..n -> ParamodulationLiterals] : n \in lengths}

\* A processed clause and a given clause with three literals between them,
\* or two processed clauses and a given clause of one literal each.
ParamodulationInputs ==
    {<<<<Clause(one, "one", NoParents, NoRule)>>,
       Clause(two, "two", NoParents, NoRule)>> :
        one \in LiteralTuples(0..2), two \in LiteralTuples(0..1)}
    \cup
    {<<<<Clause(one, "one", NoParents, NoRule)>>,
       Clause(two, "two", NoParents, NoRule)>> :
        one \in LiteralTuples({1}), two \in LiteralTuples({2})}
    \cup
    {<<processed, Clause(two, "two", NoParents, NoRule)>> :
        processed \in
            {<<>>} \cup
            {<<Clause(one, "one", NoParents, NoRule),
               Clause(other, "other", NoParents, NoRule)>> :
                one \in LiteralTuples({1}), other \in LiteralTuples({1})},
        two \in LiteralTuples({1})}

OtherThanParamodulation == <<propositions, substitutions, factors>>

\* all_paramodulants_from_clause is called, and returns or raises.
CallAllParamodulantsFromClause ==
    /\ pc = "idle"
    /\ \E one, two \in ParamodulationLiterals,
          rest_one, rest_two \in {<<>>, <<Literal(FALSE, AtomP(ConstB))>>} :
        /\ inputs' = Call("all_paramodulants_from_clause",
                          <<PlainClause(rest_one), one,
                            PlainClause(rest_two), two>>)
        /\ result' \in all_paramodulants_from_clause(
                           PlainClause(rest_one), one,
                           PlainClause(rest_two), two)
    /\ pc' = "done"
    /\ UNCHANGED <<given_clause, clauses, ci, i, j, phase,
                   new_paramodulants, paramodulants>>
    /\ UNCHANGED OtherThanParamodulation

\* all_paramodulants_from_list(clauses, given_clause) is called.
CallAllParamodulantsFromList ==
    /\ pc = "idle"
    /\ \E input \in ParamodulationInputs :
        /\ inputs' = Call("all_paramodulants_from_list", input)
        /\ clauses' = input[1]
        /\ given_clause' = input[2]
    /\ paramodulants' = <<>>
    /\ new_paramodulants' = <<>>
    /\ ci' = 1 /\ i' = 1 /\ j' = 1 /\ phase' = "first"
    /\ pc' = "all_paramodulants_from_list"
    /\ UNCHANGED result
    /\ UNCHANGED OtherThanParamodulation

\* The loops are at literal i of clause ci and literal j of the given clause.
InInnerLoop ==
    /\ pc = "all_paramodulants_from_list"
    /\ ci <= Len(clauses)
    /\ i <= Len(clauses[ci].literals)
    /\ j <= Len(given_clause.literals)

\* The first if of _get_new_paramodulants: literal_one rewrites literal_two.
ParamodulateFromProcessed ==
    /\ InInnerLoop
    /\ phase = "first"
    /\ LET literal_one == clauses[ci].literals[i]
           literal_two == given_clause.literals[j]
           clause_one == PlainClause(RemoveAt(clauses[ci].literals, i))
           clause_two == PlainClause(RemoveAt(given_clause.literals, j))
       IN IF SelectedAsEquality(literal_one)
          THEN \E outcome \in all_paramodulants_from_clause(
                       clause_one, literal_one, clause_two, literal_two) :
                \/ /\ outcome.kind = "return"
                   /\ new_paramodulants' = new_paramodulants \o outcome.value
                   /\ phase' = "second"
                   /\ UNCHANGED <<pc, result>>
                \/ /\ outcome.kind # "return"
                   /\ result' = outcome
                   /\ pc' = "done"
                   /\ UNCHANGED <<phase, new_paramodulants>>
          ELSE /\ phase' = "second"
               /\ UNCHANGED <<pc, result, new_paramodulants>>
    /\ UNCHANGED <<inputs, given_clause, clauses, ci, i, j, paramodulants>>
    /\ UNCHANGED OtherThanParamodulation

\* The second if of _get_new_paramodulants: literal_two rewrites
\* literal_one; then the loop goes to the next literal of the given clause.
ParamodulateFromGiven ==
    /\ InInnerLoop
    /\ phase = "second"
    /\ LET literal_one == clauses[ci].literals[i]
           literal_two == given_clause.literals[j]
           clause_one == PlainClause(RemoveAt(clauses[ci].literals, i))
           clause_two == PlainClause(RemoveAt(given_clause.literals, j))
       IN IF SelectedAsEquality(literal_two)
          THEN \E outcome \in all_paramodulants_from_clause(
                       clause_two, literal_two, clause_one, literal_one) :
                \/ /\ outcome.kind = "return"
                   /\ new_paramodulants' = new_paramodulants \o outcome.value
                   /\ phase' = "first"
                   /\ j' = j + 1
                   /\ UNCHANGED <<pc, result>>
                \/ /\ outcome.kind # "return"
                   /\ result' = outcome
                   /\ pc' = "done"
                   /\ UNCHANGED <<phase, j, new_paramodulants>>
          ELSE /\ phase' = "first"
               /\ j' = j + 1
               /\ UNCHANGED <<pc, result, new_paramodulants>>
    /\ UNCHANGED <<inputs, given_clause, clauses, ci, i, paramodulants>>
    /\ UNCHANGED OtherThanParamodulation

\* _get_new_paramodulants returns: its paramodulants are tagged and kept,
\* and the loop goes to the next literal of the processed clause.
TagNewParamodulants ==
    /\ pc = "all_paramodulants_from_list"
    /\ ci <= Len(clauses)
    /\ i <= Len(clauses[ci].literals)
    /\ j > Len(given_clause.literals)
    /\ paramodulants' = paramodulants \o
            [n \in DOMAIN new_paramodulants |->
                TagParamodulant(new_paramodulants[n], clauses[ci],
                                given_clause)]
    /\ new_paramodulants' = <<>>
    /\ i' = i + 1
    /\ j' = 1
    /\ UNCHANGED <<pc, inputs, given_clause, clauses, ci, phase, result>>
    /\ UNCHANGED OtherThanParamodulation

\* The literals of a processed clause are done: on to the next clause.
NextOtherClause ==
    /\ pc = "all_paramodulants_from_list"
    /\ ci <= Len(clauses)
    /\ i > Len(clauses[ci].literals)
    /\ ci' = ci + 1
    /\ i' = 1
    /\ UNCHANGED <<pc, inputs, given_clause, clauses, j, phase,
                   new_paramodulants, paramodulants, result>>
    /\ UNCHANGED OtherThanParamodulation

\* The processed clauses are done: all_paramodulants_from_list returns.
ReturnParamodulants ==
    /\ pc = "all_paramodulants_from_list"
    /\ ci > Len(clauses)
    /\ result' = Return(paramodulants)
    /\ pc' = "done"
    /\ UNCHANGED <<inputs, given_clause, clauses, ci, i, j, phase,
                   new_paramodulants, paramodulants>>
    /\ UNCHANGED OtherThanParamodulation

NextParamodulation ==
    \/ CallAllParamodulantsFromClause
    \/ CallAllParamodulantsFromList
    \/ ParamodulateFromProcessed
    \/ ParamodulateFromGiven
    \/ TagNewParamodulants
    \/ NextOtherClause
    \/ ReturnParamodulants

SpecParamodulation == Init /\ [][NextParamodulation]_vars

\* Factoring and paramodulation together.
NextInference == NextFactoring \/ NextParamodulation

SpecInference == Init /\ [][NextInference]_vars

-----------------------------------------------------------------------------
(* Properties of all_paramodulants_from_clause and                         *)
(* all_paramodulants_from_list.                                            *)

\* The rewriting literal and the rewritten literal of a combination:
\* direction "first" rewrites the given clause's literal j with literal i
\* of processed clause c, direction "second" the other way round.
Rewriting(c, m, n, direction) ==
    IF direction = "first" THEN clauses[c].literals[m]
    ELSE given_clause.literals[n]

Rewritten(c, m, n, direction) ==
    IF direction = "first" THEN given_clause.literals[n]
    ELSE clauses[c].literals[m]

\* Every (processed clause, literal of it, literal of the given clause,
\* direction, sub-term position, orientation).
Combinations ==
    LET processed == UNION {Range(clauses[c].literals) : c \in DOMAIN clauses}
        literals == processed \cup Range(given_clause.literals)
        positions ==
            UNION {1..(proposition_length(l.atom) - 1) : l \in literals}
    IN {combination \in
            (DOMAIN clauses)
                \X (UNION {DOMAIN clauses[c].literals : c \in DOMAIN clauses})
                \X (DOMAIN given_clause.literals)
                \X {"first", "second"} \X positions \X (1..2) :
            combination[2] \in DOMAIN clauses[combination[1]].literals}

\* The combinations that give a paramodulant: the rewriting literal is a
\* positive binary equality with different sides, the position is one of
\* 1 .. size - 1 in the rewritten atom, the chosen side unifies with the
\* sub-term there and the other side is not that sub-term.
Productive ==
    {combination \in Combinations :
        LET equality == Rewriting(combination[1], combination[2],
                                  combination[3], combination[4])
            target == Rewritten(combination[1], combination[2],
                                combination[3], combination[4])
            k == combination[5]
            orientation == combination[6]
        IN /\ ~equality.negated
           /\ equality.atom.index = EQUALITY_SYMBOL_ID
           /\ Len(equality.atom.arguments) = 2
           /\ equality.atom.arguments[1] # equality.atom.arguments[2]
           /\ k <= proposition_length(target.atom) - 1
           /\ Unifiable(equality.atom.arguments[orientation],
                        subterm_by_index(target.atom, k))
           /\ subterm_by_index(target.atom, k)
                # equality.atom.arguments[3 - orientation]}

\* A combination whose rewriting literal is a positive atom of the equality
\* symbol that does not have two arguments.
MalformedEqualityUsed ==
    \E combination \in Combinations :
        LET equality == Rewriting(combination[1], combination[2],
                                  combination[3], combination[4])
        IN /\ ~equality.negated
           /\ equality.atom.index = EQUALITY_SYMBOL_ID
           /\ Len(equality.atom.arguments) # 2

\* The call of the doctest: one = (a=b | X=X), two = (b=c).
DocParamodulationInput ==
    <<<<Clause(<<Literal(FALSE, Equality(ConstA, ConstB)),
                 Literal(FALSE, Equality(X0, X0))>>,
               "one", NoParents, NoRule)>>,
      Clause(<<Literal(FALSE, Equality(ConstB, ConstC))>>,
             "two", NoParents, NoRule)>>

FromListDone == pc = "done" /\ inputs.call = "all_paramodulants_from_list"

\* C6 as claimed: all_paramodulants_from_list returns one clause for every
\* productive combination; every other combination adds nothing and does
\* not abort the enumeration; the doctest's call returns 6 clauses.
C6_OnePerCombination_Claimed ==
    FromListDone =>
        /\ result.kind = "return"
        /\ Len(result.value) = Cardinality(Productive)
        /\ inputs.args = DocParamodulationInput => Len(result.value) = 6

\* C6: all_paramodulants_from_list returns one clause for every productive
\* combination and the other combinations add nothing and do not abort the
\* enumeration, unless the rewriting literal of a combination is a
\* positive atom of the equality symbol without exactly two arguments: the
\* call then raises ValueError.  The doctest's call returns 6 clauses.
C6_OnePerCombination ==
    FromListDone =>
        /\ MalformedEqualityUsed <=> result.kind = "ValueError"
        /\ ~MalformedEqualityUsed =>
            /\ result.kind = "return"
            /\ Len(result.value) = Cardinality(Productive)
        /\ inputs.args = DocParamodulationInput =>
            /\ result.kind = "return"
            /\ Len(result.value) = 6

\* The doctest's call has returned.
C6_Witness ==
    /\ FromListDone
    /\ inputs.args = DocParamodulationInput
    /\ result.kind = "return"
    /\ Cardinality(Productive) = 6
    /\ Cardinality(Combinations) = 16

FromClauseDone == pc = "done" /\ inputs.call = "all_paramodulants_from_clause"

\* C8: all_paramodulants_from_clause raises ValueError when its equality
\* literal is negated, is not an atom of the equality symbol or does not
\* have two arguments, and returns the empty tuple for a positive binary
\* equality with equal sides.  all_paramodulants_from_list raises
\* ValueError when a literal of a processed clause is a positive atom of
\* the equality symbol without exactly two arguments and the given clause
\* has a literal.
C8_EqualityPrecondition ==
    /\ FromClauseDone =>
        LET equality == inputs.args[2]
        IN IF \/ equality.negated
              \/ equality.atom.index # EQUALITY_SYMBOL_ID
              \/ Len(equality.atom.arguments) # 2
           THEN result.kind = "ValueError"
           ELSE /\ result.kind = "return"
                /\ equality.atom.arguments[1] = equality.atom.arguments[2]
                    => result.value = <<>>
    /\ (/\ FromListDone
        /\ given_clause.literals # <<>>
        /\ \E c \in DOMAIN clauses : \E m \in DOMAIN clauses[c].literals :
            /\ ~clauses[c].literals[m].negated
            /\ clauses[c].literals[m].atom.index = EQUALITY_SYMBOL_ID
            /\ Len(clauses[c].literals[m].atom.arguments) # 2)
        => result.kind = "ValueError"

\* all_paramodulants_from_list has raised ValueError for the equality
\* symbol with one argument, in the second literal of a processed clause,
\* after the first literal had given paramodulants.
C8_Witness ==
    /\ FromListDone
    /\ result.kind = "ValueError"
    /\ ci = 1 /\ i = 2
    /\ paramodulants # <<>>
    /\ Len(clauses[1].literals[2].atom.arguments) = 1

-----------------------------------------------------------------------------
(* Properties of the clauses both enumerations return.                     *)

\* No two positions of a tuple hold the same element.
NoDuplicates(t) == \A m, n \in DOMAIN t : m # n => t[m] # t[n]

C9_Provenance ==
    /\ (AllPossibleFactorsDone /\ result.kind = "return") =>
        \A n \in DOMAIN result.value :
            /\ result.value[n].inference_rule = "factoring"
            /\ result.value[n].inference_parents = <<"given">>
            /\ result.value[n].inference_parents = <<inputs.args[1].label>>
    /\ (FromListDone /\ result.kind = "return") =>
        LET productive == Productive
        IN /\ Len(result.value) = Cardinality(productive)
           /\ \A c \in DOMAIN clauses :
                \* the paramodulants come clause by clause
                LET before == Cardinality({q \in productive : q[1] < c})
                    from == Cardinality({q \in productive : q[1] = c})
                IN \A n \in (before + 1)..(before + from) :
                    /\ result.value[n].inference_rule = "paramodulation"
                    /\ result.value[n].inference_parents =
                         <<inputs.args[1][c].label, inputs.args[2].label>>
                    /\ result.value[n].inference_parents # NoParents
    /\ pc = "all_paramodulants_from_list" =>
        \A n \in DOMAIN paramodulants :
            /\ paramodulants[n].inference_rule = "paramodulation"
            /\ Len(paramodulants[n].inference_parents) = 2
            /\ paramodulants[n].inference_parents[2] = "two"

\* all_paramodulants_from_list has returned paramodulants of two processed
\* clauses, of which some rewrote the given clause and some were rewritten
\* by it.
C9_Witness ==
    /\ FromListDone /\ result.kind = "return"
    /\ Len(clauses) = 2
    /\ \E p, q \in Productive :
        /\ p[1] = 1 /\ q[1] = 2
        /\ p[4] = "first" /\ q[4] = "second"
    /\ \E m, n \in DOMAIN result.value :
        /\ result.value[m].inference_parents = <<"one", "two">>
        /\ result.value[n].inference_parents = <<"other", "two">>

====
